---- MODULE Spec2Model ----
(***************************************************************************)
(* RecFix server: the recommendation pipeline of                          *)
(* server/src/services/youtubeService.js and the two request handlers of   *)
(* server/src/controllers/youtubeController.js.                            *)
(*                                                                         *)
(* JavaScript strings are sequences of one-character strings, so that      *)
(* includes(), toLowerCase(), the duration regex and URL parsing are       *)
(* computed character by character.  A JavaScript value that may be null   *)
(* is a record [isNull, str].                                              *)
(***************************************************************************)
EXTENDS Integers, Sequences, FiniteSets, TLC

----------------------------------------------------------------------------
(* Strings *)

Null == [isNull |-> TRUE, str |-> <<>>]
Str(s) == [isNull |-> FALSE, str |-> s]
\* JavaScript truthiness of a string-or-null value: null and "" are falsy
Truthy(v) == ~v.isNull /\ v.str # <<>>

\* String.prototype.includes
Includes(s, sub) ==
  \E i \in 0..(Len(s) - Len(sub)) : SubSeq(s, i + 1, i + Len(sub)) = sub

\* String.prototype.indexOf, 1-based; 0 when absent
IndexOf(s, sub) ==
  IF Includes(s, sub)
  THEN CHOOSE i \in 1..(Len(s) - Len(sub) + 1) :
         /\ SubSeq(s, i, i + Len(sub) - 1) = sub
         /\ \A j \in 1..(i - 1) : SubSeq(s, j, j + Len(sub) - 1) # sub
  ELSE 0

RECURSIVE ScanFor(_, _, _)
ScanFor(s, cs, i) ==
  IF i > Len(s) \/ s[i] \in cs THEN i ELSE ScanFor(s, cs, i + 1)
\* first position of a character of the set cs, Len(s) + 1 when there is none
FirstOf(s, cs) == ScanFor(s, cs, 1)

Upper == <<"A","B","C","D","E","F","G","H","I","J","K","L","M",
           "N","O","P","Q","R","S","T","U","V","W","X","Y","Z">>
Lower == <<"a","b","c","d","e","f","g","h","i","j","k","l","m",
           "n","o","p","q","r","s","t","u","v","w","x","y","z">>
LowerChar(c) ==
  IF \E i \in 1..Len(Upper) : Upper[i] = c
  THEN Lower[CHOOSE i \in 1..Len(Upper) : Upper[i] = c]
  ELSE c
\* String.prototype.toLowerCase
ToLower(s) == [i \in 1..Len(s) |-> LowerChar(s[i])]

RECURSIVE Join(_, _)
\* Array.prototype.join
Join(strs, sep) ==
  IF strs = <<>> THEN <<>>
  ELSE IF Len(strs) = 1 THEN strs[1]
  ELSE strs[1] \o sep \o Join(Tail(strs), sep)

Digits == <<"0","1","2","3","4","5","6","7","8","9">>
DigitVal(c) == (CHOOSE i \in 1..Len(Digits) : Digits[i] = c) - 1

RECURSIVE ParseInt(_)
\* parseInt of a string "ddd..X": the value of its leading digits
ParseInt(s) ==
  LET n == FirstOf(s, {s[i] : i \in 1..Len(s)} \ {Digits[i] : i \in 1..Len(Digits)}) - 1
      ds == SubSeq(s, 1, n)
  IN IF n = 0 THEN 0
     ELSE ParseInt(SubSeq(ds, 1, n - 1)) * 10 + DigitVal(ds[n])

----------------------------------------------------------------------------
(* parseDuration, youtubeService.js:30-39 *)

\* number of digit characters of s from position i on
DigitRun(s, i) ==
  FirstOf(SubSeq(s, i, Len(s)),
          {s[k] : k \in 1..Len(s)} \ {Digits[k] : k \in 1..Len(Digits)}) - 1

\* one optional group (\d+X)? tried at position i: the matched text, or <<>>
OptGroup(s, i, unit) ==
  LET n == DigitRun(s, i)
  IN IF n > 0 /\ i + n <= Len(s) /\ s[i + n] = unit
     THEN SubSeq(s, i, i + n)
     ELSE <<>>

\* duration.match(/PT(\d+H)?(\d+M)?(\d+S)?/): null when "PT" does not occur
DurationMatch(duration) ==
  LET p == IndexOf(duration, <<"P","T">>)
      g1 == OptGroup(duration, p + 2, "H")
      g2 == OptGroup(duration, p + 2 + Len(g1), "M")
      g3 == OptGroup(duration, p + 2 + Len(g1) + Len(g2), "S")
  IN IF p = 0 THEN [isNull |-> TRUE, g |-> <<>>]
     ELSE [isNull |-> FALSE, g |-> <<g1, g2, g3>>]

\* match[1] on a null match raises a TypeError
parseDurationThrows(duration) == DurationMatch(duration).isNull

parseDuration(duration) ==
  LET match == DurationMatch(duration).g
  IN (IF match[1] # <<>> THEN ParseInt(match[1]) * 3600 ELSE 0)
     + (IF match[2] # <<>> THEN ParseInt(match[2]) * 60 ELSE 0)
     + (IF match[3] # <<>> THEN ParseInt(match[3]) ELSE 0)

----------------------------------------------------------------------------
(* isYoutubeShort, youtubeService.js:6-28 *)

Shorts == <<"s","h","o","r","t","s">>
YoutubeCom == <<"y","o","u","t","u","b","e",".","c","o","m">>
YoutuBe == <<"y","o","u","t","u",".","b","e">>

shortsKeywords ==
  << <<"#">> \o Shorts,
     <<"#","s","h","o","r","t">>,
     <<"#","y","t">> \o Shorts,
     Shorts \o <<"/">>,
     <<"/">> \o Shorts,
     YoutubeCom \o <<"/">> \o Shorts >>

\* `${title} ${description} ${(tags || []).join(' ')}`.toLowerCase()
textContent(video) ==
  ToLower(video.title \o <<" ">> \o video.description \o <<" ">>
          \o Join(IF video.hasTags THEN video.tags ELSE <<>>, <<" ">>))

\* the filter raises a TypeError when the duration string has no "PT"
isYoutubeShortThrows(video) ==
  /\ video.hasContentDetails
  /\ video.hasSnippet
  /\ parseDurationThrows(video.duration)

\* a variant that keeps the case of the text it searches
isYoutubeShortCaseSensitive(video) ==
  IF ~video.hasContentDetails \/ ~video.hasSnippet THEN TRUE
  ELSE IF parseDuration(video.duration) < 180 THEN TRUE
  ELSE IF \E k \in 1..Len(shortsKeywords) :
            Includes(video.title \o <<" ">> \o video.description, shortsKeywords[k])
       THEN TRUE
  ELSE IF video.id.isString /\ Includes(video.id.str, <<"/">> \o Shorts \o <<"/">>)
       THEN TRUE
  ELSE IF video.hasContentDetails /\ video.hasDimension
          /\ video.height > video.width THEN TRUE
  ELSE FALSE

isYoutubeShort(video) ==
  IF ~video.hasContentDetails \/ ~video.hasSnippet THEN TRUE
  ELSE IF parseDuration(video.duration) < 180 THEN TRUE
  ELSE IF \E k \in 1..Len(shortsKeywords) :
            Includes(textContent(video), shortsKeywords[k]) THEN TRUE
  ELSE IF video.id.isString /\ Includes(video.id.str, <<"/">> \o Shorts \o <<"/">>)
       THEN TRUE
  ELSE IF video.hasContentDetails /\ video.hasDimension
          /\ video.height > video.width THEN TRUE
  ELSE FALSE

----------------------------------------------------------------------------
(* new URL(url) and URLSearchParams.get, as used by extractVideoId,         *)
(* youtubeService.js:280-284.  The parser covers the URL shapes of the     *)
(* inputs below: an optional scheme, an authority without credentials, a   *)
(* path, a query and a fragment.                                           *)

SchemeChars ==
  {Lower[i] : i \in 1..Len(Lower)} \cup {Upper[i] : i \in 1..Len(Upper)}
    \cup {Digits[i] : i \in 1..Len(Digits)} \cup {"+", "-", "."}
Letters ==
  {Lower[i] : i \in 1..Len(Lower)} \cup {Upper[i] : i \in 1..Len(Upper)}
SpecialSchemes == { <<"h","t","t","p">>, <<"h","t","t","p","s">> }

RECURSIVE SkipSlashes(_)
SkipSlashes(s) ==
  IF s # <<>> /\ s[1] \in {"/", "\\"} THEN SkipSlashes(Tail(s)) ELSE s

\* scheme state: the scheme up to the first ":", if the string has one
SplitScheme(url) ==
  LET colon == FirstOf(url, {":"})
  IN [ok |-> /\ colon <= Len(url)
             /\ colon > 1
             /\ url[1] \in Letters
             /\ \A i \in 1..(colon - 1) : url[i] \in SchemeChars,
      special |-> ToLower(SubSeq(url, 1, colon - 1)) \in SpecialSchemes,
      rest |-> SubSeq(url, colon + 1, Len(url))]

\* the slashes after the scheme: any number for http(s), "//" otherwise
SplitSlashes(a) ==
  LET slashed == Len(a.rest) >= 2 /\ a.rest[1] = "/" /\ a.rest[2] = "/"
  IN [ok |-> a.ok, special |-> a.special,
      hasAuth |-> a.special \/ slashed,
      rest |-> IF a.special THEN SkipSlashes(a.rest)
               ELSE IF slashed THEN SubSeq(a.rest, 3, Len(a.rest))
               ELSE a.rest]

\* the authority ends at the first "/", "?" or "#"
SplitAuthority(b) ==
  LET authEnd == IF b.hasAuth
                 THEN FirstOf(b.rest, IF b.special THEN {"/", "\\", "?", "#"}
                                      ELSE {"/", "?", "#"})
                 ELSE 1
  IN [ok |-> b.ok, special |-> b.special,
      auth |-> SubSeq(b.rest, 1, authEnd - 1),
      rest |-> SubSeq(b.rest, authEnd, Len(b.rest))]

\* the host is the authority without its port
SplitHost(c) ==
  LET port == FirstOf(c.auth, {":"})
  IN [ok |-> c.ok, special |-> c.special,
      host |-> SubSeq(c.auth, 1, port - 1),
      rest |-> c.rest]

\* the path ends at the first "?" or "#"
SplitPath(d) ==
  LET pathEnd == FirstOf(d.rest, {"?", "#"})
  IN [ok |-> d.ok, special |-> d.special, host |-> d.host,
      path |-> SubSeq(d.rest, 1, pathEnd - 1),
      rest |-> SubSeq(d.rest, pathEnd, Len(d.rest))]

\* the query runs from "?" to the first "#"
SplitQuery(e) ==
  LET qEnd == FirstOf(e.rest, {"#"})
  IN [ok |-> e.ok, special |-> e.special, host |-> e.host, path |-> e.path,
      query |-> IF e.rest # <<>> /\ e.rest[1] = "?"
                THEN SubSeq(e.rest, 2, qEnd - 1) ELSE <<>>]

\* the URL object, or ok = FALSE where the constructor raises a TypeError:
\* no scheme, or an http(s) URL with an empty or invalid host
UrlObject(f) ==
  IF ~f.ok THEN [ok |-> FALSE]
  ELSE IF f.special
          /\ (f.host = <<>> \/ \E i \in 1..Len(f.host) : f.host[i] \in {" ", "@", "%"})
       THEN [ok |-> FALSE]
  ELSE [ok |-> TRUE,
        hostname |-> IF f.special THEN ToLower(f.host) ELSE f.host,
        pathname |-> IF f.special /\ f.path = <<>> THEN <<"/">> ELSE f.path,
        query |-> f.query]

ParseURL(url) ==
  UrlObject(SplitQuery(SplitPath(SplitHost(SplitAuthority(SplitSlashes(SplitScheme(url)))))))

\* the characters the percent-escapes of the inputs stand for
PercentCodes ==
  { <<"2","6","&">>, <<"2","3","#">>, <<"2","5","%">>, <<"2","0"," ">>,
    <<"3","D","=">>, <<"3","d","=">>, <<"2","B","+">>, <<"2","b","+">> }

RECURSIVE FormDecode(_)
\* application/x-www-form-urlencoded decoding of a name or a value
FormDecode(s) ==
  IF s = <<>> THEN <<>>
  ELSE IF s[1] = "+" THEN <<" ">> \o FormDecode(Tail(s))
  ELSE IF s[1] = "%" /\ Len(s) >= 3 /\ \E c \in PercentCodes : c[1] = s[2] /\ c[2] = s[3]
       THEN << (CHOOSE c \in PercentCodes : c[1] = s[2] /\ c[2] = s[3])[3] >>
            \o FormDecode(SubSeq(s, 4, Len(s)))
  ELSE <<s[1]>> \o FormDecode(Tail(s))

RECURSIVE SearchParamsGet(_, _)
\* urlObj.searchParams.get(name): the value of the first pair called name
SearchParamsGet(query, name) ==
  IF query = <<>> THEN Null
  ELSE LET amp == FirstOf(query, {"&"})
           pair == SubSeq(query, 1, amp - 1)
           eq == FirstOf(pair, {"="})
           key == FormDecode(SubSeq(pair, 1, eq - 1))
           val == FormDecode(SubSeq(pair, eq + 1, Len(pair)))
       IN IF pair # <<>> /\ key = name THEN Str(val)
          ELSE SearchParamsGet(SubSeq(query, amp + 1, Len(query)), name)

----------------------------------------------------------------------------
(* extractVideoId, youtubeService.js:278-290 *)

\* a variant that compares the host for equality instead of containment
extractVideoIdExactHost(url) ==
  LET urlObj == ParseURL(url)
  IN IF ~urlObj.ok THEN [threw |-> FALSE, value |-> Null]
     ELSE IF urlObj.hostname = YoutubeCom
          THEN [threw |-> FALSE, value |-> SearchParamsGet(urlObj.query, <<"v">>)]
     ELSE IF urlObj.hostname = YoutuBe
          THEN [threw |-> FALSE,
                value |-> Str(SubSeq(urlObj.pathname, 2, Len(urlObj.pathname)))]
     ELSE [threw |-> FALSE, value |-> Null]

\* the try block: the value returned, or threw where new URL raises
extractVideoIdTry(url) ==
  LET urlObj == ParseURL(url)
  IN IF ~urlObj.ok THEN [threw |-> TRUE, value |-> Null]
     ELSE IF Includes(urlObj.hostname, YoutubeCom)
          THEN [threw |-> FALSE, value |-> SearchParamsGet(urlObj.query, <<"v">>)]
     ELSE IF Includes(urlObj.hostname, YoutuBe)
          THEN [threw |-> FALSE,
                value |-> Str(SubSeq(urlObj.pathname, 2, Len(urlObj.pathname)))]
     ELSE [threw |-> FALSE, value |-> Null]

\* the whole function: the catch block logs and falls through to return null
extractVideoIdCall(url) ==
  LET r == extractVideoIdTry(url)
  IN IF r.threw THEN [threw |-> FALSE, value |-> Null] ELSE r

extractVideoId(url) == extractVideoIdCall(url).value

----------------------------------------------------------------------------
(* URL strings.  A URL is written from its parts; the program sees only   *)
(* the string.                                                             *)

Https == <<"h","t","t","p","s",":","/","/">>
Http == <<"h","t","t","p",":","/","/">>
HttpsUpper == <<"H","T","T","P","S",":","/","/">>
Mailto == <<"m","a","i","l","t","o",":">>
Www == <<"w","w","w",".">>
Watch == <<"/","w","a","t","c","h">>

\* kind: "web" for http(s) URLs, "opaque" for a scheme without authority,
\* "none" for a string without scheme, which is no URL
ExPrefixes ==
  { [kind |-> "web", text |-> Https], [kind |-> "web", text |-> Http],
    [kind |-> "web", text |-> HttpsUpper],
    [kind |-> "opaque", text |-> Mailto], [kind |-> "none", text |-> <<>>] }

ExHosts ==
  { Www \o YoutubeCom, YoutubeCom, YoutuBe, <<"e","x",".","c","o","m">>,
    <<"Y","o","u","T","u","b","e",".","c","o","m">>,
    <<"m",".">> \o YoutuBe,
    YoutuBe \o <<".">> \o YoutubeCom }

ExPaths == { <<>>, <<"/">>, Watch, <<"/","a","b","c">>, <<"/","a","/","b">> }

\* a query pair as written (raw) and as it decodes (name, val)
Pair(rawName, rawVal, name, val) ==
  [raw |-> rawName \o <<"=">> \o rawVal, name |-> name, val |-> val]
PV(val) == Pair(<<"v">>, val, <<"v">>, val)

ExQueries ==
  { <<>>,
    << PV(<<"a","b","c">>) >>,
    << PV(<<>>) >>,
    << Pair(<<"t">>, <<"1">>, <<"t">>, <<"1">>), PV(<<"a","b","c">>) >>,
    << Pair(<<"v">>, <<"a","%","2","6","b">>, <<"v">>, <<"a","&","b">>) >>,
    << Pair(<<"v">>, <<"a","+","b">>, <<"v">>, <<"a"," ","b">>) >>,
    << PV(<<"a">>), PV(<<"b">>) >>,
    << Pair(<<"l","i","s","t">>, <<"x">>, <<"l","i","s","t">>, <<"x">>) >>,
    << Pair(<<"V">>, <<"a">>, <<"V">>, <<"a">>) >> }

ExFragments == { <<>>, <<"#","v","=","z">> }

ExParts ==
  [prefix : ExPrefixes, host : ExHosts, path : ExPaths,
   query : ExQueries, fragment : ExFragments]

\* the string a URL of these parts is written as
UrlString(parts) ==
  parts.prefix.text \o parts.host \o parts.path
    \o (IF parts.query = <<>> THEN <<>>
        ELSE <<"?">> \o Join([i \in 1..Len(parts.query) |-> parts.query[i].raw], <<"&">>))
    \o parts.fragment

----------------------------------------------------------------------------
(* Video items the external API may return.  The pool holds indices into   *)
(* Catalog.                                                                *)

Cat == <<"c","a","t">>
BaseVideo ==
  [hasContentDetails |-> TRUE, hasSnippet |-> TRUE,
   duration |-> <<"P","T","1","0","M">>,
   title |-> Cat, description |-> <<>>, hasTags |-> FALSE, tags |-> <<>>,
   id |-> [isString |-> FALSE, str |-> <<"v","1">>],
   hasDimension |-> FALSE, height |-> 0, width |-> 0]

Catalog ==
  << BaseVideo,
     [BaseVideo EXCEPT !.duration = <<"P","T","1","H","2","M","3","S">>,
                       !.id = [isString |-> TRUE, str |-> <<"v","2">>],
                       !.hasDimension = TRUE, !.height = 720, !.width = 1280],
     [BaseVideo EXCEPT !.duration = <<"P","T","3","M">>],
     [BaseVideo EXCEPT !.duration = <<"P","T","2","M","5","9","S">>],
     [BaseVideo EXCEPT !.title = Cat \o <<" ","#","S","h","o","r","t","s">>],
     [BaseVideo EXCEPT !.hasTags = TRUE, !.tags = << <<"y","t">>, Shorts >>],
     [BaseVideo EXCEPT !.description = <<"x","/">> \o Shorts],
     [BaseVideo EXCEPT !.id = [isString |-> TRUE,
                               str |-> <<"a","/">> \o Shorts \o <<"/","b">>]],
     [BaseVideo EXCEPT !.hasDimension = TRUE, !.height = 1920, !.width = 1080],
     [BaseVideo EXCEPT !.hasContentDetails = FALSE],
     [BaseVideo EXCEPT !.hasSnippet = FALSE],
     [BaseVideo EXCEPT !.duration = <<"P","0","D">>],
     [BaseVideo EXCEPT !.hasDimension = TRUE, !.height = 1080, !.width = 1080],
     [BaseVideo EXCEPT !.duration = <<"P","T","5","9","M","6","0","S">>,
                       !.hasTags = TRUE, !.tags = << Shorts, <<"/","x">> >>] >>


\* the catalogue entries that are not short-form, in a fixed rotation
LongCycle == <<1, 2, 9, 3, 6, 13, 7, 14>>
LongPageLen == 12
LongPage == [i \in 1..LongPageLen |-> LongCycle[((i - 1) % Len(LongCycle)) + 1]]

\* the item lists a search.list response may carry
RelatedPages == { <<4, 10>>, <<2, 5, 2, 3, 11>>, <<1, 12>>, LongPage }

T1 == <<"T","1">>
T2 == <<"T","2">>
\* req.query.pageToken: absent, or a cursor
CallerTokens == { Null, Str(T1) }
\* response.data.nextPageToken: absent on the last page, or a cursor
ApiTokens == { Null, Str(T2) }
\* error.code of an upstream failure
ErrorCodes == { 403, 404, 500 }
\* the failures of videos.list the model draws from
DetailsErrorCodes == { 403, 404 }

----------------------------------------------------------------------------
(* Requests *)

MaxUrls == 2
\* urls.length > 5 is rejected, youtubeController.js:13
MAX_URLS == 5
MaxEntries == 2

RECURSIVE SeqsUpTo(_, _)
\* the sequences over S of length at most n
SeqsUpTo(S, n) ==
  IF n = 0 THEN { <<>> }
  ELSE LET shorter == SeqsUpTo(S, n - 1)
       IN shorter \cup { Append(q, x) : q \in {r \in shorter : Len(r) = n - 1}, x \in S }

WatchUrl(host, q) == Https \o host \o Watch \o <<"?","v","=">> \o q

UrlSamples ==
  { WatchUrl(Www \o YoutubeCom, <<"a">>),
    Https \o YoutuBe \o <<"/","b">>,
    Https \o <<"e","x",".","c","o","m">> \o Watch \o <<"?","v","=","a">>,
    YoutubeCom \o Watch \o <<"?","v","=","a">>,
    Https \o YoutubeCom \o Watch }

\* one URL more than handleUrlInput accepts
TooManyUrls == [i \in 1..(MAX_URLS + 1) |-> WatchUrl(YoutubeCom, <<"a">>)]

\* req.body.urls: an array of strings, or something that is no array
UrlBodies ==
  { [isArray |-> TRUE, urls |-> u] : u \in SeqsUpTo(UrlSamples, MaxUrls) \cup {TooManyUrls} }
    \cup { [isArray |-> FALSE, urls |-> <<>>] }

\* a field of a history entry: a string, a number, or absent
JsString(s) == [type |-> "string", str |-> s]
JsNumber == [type |-> "number", str |-> <<>>]
JsUndefined == [type |-> "undefined", str |-> <<>>]
JsTruthy(v) == v.type = "number" \/ (v.type = "string" /\ v.str # <<>>)

Entry(titleUrl, time) == [isObject |-> TRUE, titleUrl |-> titleUrl, time |-> time]
NullEntry == [isObject |-> FALSE, titleUrl |-> JsUndefined, time |-> JsUndefined]
Year(d) == JsString(<<"2","0","2",d>>)
Watched(q, d) == Entry(JsString(WatchUrl(Www \o YoutubeCom, q)), Year(d))

EntrySamples ==
  { Watched(<<"a">>, "1"),
    Watched(<<"b">>, "2"),
    Entry(JsString(WatchUrl(<<"m",".">> \o YoutubeCom, <<"a">>)), Year("3")),
    Watched(<<"a","%","2","6","b">>, "4"),
    Entry(JsString(Https \o YoutubeCom \o <<"/","p","l","a","y","l","i","s","t">>), Year("5")),
    Entry(JsString(Https \o <<"e","x",".","c","o","m","/","?","u","=">> \o YoutubeCom \o Watch),
          Year("6")),
    Entry(JsString(WatchUrl(YoutubeCom, <<"c">>)), JsUndefined),
    Entry(JsNumber, Year("1")),
    NullEntry }

\* thirteen watch entries, not in order of time; the ten latest name six IDs
LongHistory ==
  << Watched(<<"o","l","d">>, "0"), Watched(<<"a">>, "5"), Watched(<<"b">>, "6"),
     Watched(<<"a">>, "8"), Watched(<<"c">>, "3"), Watched(<<"a","%","2","6","b">>, "7"),
     Watched(<<"b">>, "4"), Watched(<<"%","2","3","x">>, "9"),
     Watched(<<"%","2","3","y">>, "2"),
     Watched(<<"c">>, "6"), Watched(<<"o","l","d","e","r">>, "1"), Watched(<<"a">>, "2"),
     Watched(<<"b">>, "3") >>

\* req.file: absent, or a buffer that is no JSON, JSON that is no array, or
\* an array of entries
Files ==
  { [present |-> FALSE, json |-> FALSE, isArray |-> FALSE, entries |-> <<>>],
    [present |-> TRUE, json |-> FALSE, isArray |-> FALSE, entries |-> <<>>],
    [present |-> TRUE, json |-> TRUE, isArray |-> FALSE, entries |-> <<>>] }
    \cup { [present |-> TRUE, json |-> TRUE, isArray |-> TRUE, entries |-> e] :
             e \in SeqsUpTo(EntrySamples, MaxEntries) \cup {LongHistory} }

----------------------------------------------------------------------------
(* State *)

VARIABLES
  pc,         \* "idle", "details" or "related" (an API call is awaited), "done"
  mode,       \* "none", "url" (handleUrlInput) or "file" (handleFileUpload)
  request,    \* the request received: req.body.urls or req.file
  pageToken,  \* the pageToken argument of processVideoUrls
  invoked,    \* whether the handler called the service
  videoUrls,  \* the videoUrls argument of processVideoUrls
  idx,        \* position in videoUrls of the source being processed
  results,    \* the pool processVideoUrls has gathered
  calls,      \* the external API calls issued, with their outcomes
  cursors,    \* the nextPageToken values getRelatedVideos has returned
  response,   \* the HTTP response sent
  exParts,    \* extractVideoId called alone: the URL's parts,
  exUrl,      \*   the string passed,
  exResult,   \*   what the call did,
  exPc,       \*   "call" before it, "returned" after it
  shVideos,   \* shuffleWithRelevance called alone: the videos argument,
  shChunks,   \*   the chunks array,
  shChunk,    \*   the chunk being shuffled (counted from 1),
  shI,        \*   the loop variable i of its shuffle,
  shResult,   \*   the array returned,
  shPc        \*   "call", "shuffle" (Math.random is called), "returned"

vars == <<pc, mode, request, pageToken, invoked, videoUrls, idx, results, calls,
          cursors, response, exParts, exUrl, exResult, exPc,
          shVideos, shChunks, shChunk, shI, shResult, shPc>>
exVars == <<exParts, exUrl, exResult, exPc>>
shVars == <<shVideos, shChunks, shChunk, shI, shResult, shPc>>
mainVars == <<pc, mode, request, pageToken, invoked, videoUrls, idx, results, calls,
              cursors, response>>

NoResponse == [status |-> 0, report |-> "none", items |-> <<>>, nextPageToken |-> Null]
NoRequest == [isArray |-> FALSE, urls |-> <<>>]
NoParts == [prefix |-> [kind |-> "none", text |-> <<>>], host |-> <<>>, path |-> <<>>,
            query |-> <<>>, fragment |-> <<>>]
NoResult == [threw |-> FALSE, value |-> Null]

MainIdle ==
  /\ pc = "idle"
  /\ mode = "none"
  /\ request = NoRequest
  /\ pageToken = Null
  /\ invoked = FALSE
  /\ videoUrls = <<>>
  /\ idx = 0
  /\ results = <<>>
  /\ calls = <<>>
  /\ cursors = {}
  /\ response = NoResponse

ExIdle ==
  /\ exParts = NoParts
  /\ exUrl = <<>>
  /\ exResult = NoResult
  /\ exPc = "idle"

ShIdle ==
  /\ shVideos = <<>>
  /\ shChunks = <<>>
  /\ shChunk = 0
  /\ shI = 0
  /\ shResult = <<>>
  /\ shPc = "idle"

Init == MainIdle /\ ExIdle /\ ShIdle

----------------------------------------------------------------------------
(* Responses of the handlers, youtubeController.js *)

\* an error object: code is 0 where the error has no code property
Err(name, code) == [name |-> name, code |-> code]
Thrown(e) == [threw |-> TRUE, error |-> e, items |-> <<>>, nextPageToken |-> Null]
Returned(items, token) ==
  [threw |-> FALSE, error |-> Err("none", 0), items |-> items, nextPageToken |-> token]

Reply(status, report) ==
  [status |-> status, report |-> report, items |-> <<>>, nextPageToken |-> Null]
Success(result) ==
  [status |-> 200, report |-> "success", items |-> result.items,
   nextPageToken |-> result.nextPageToken]

\* handleUrlInput after the await, lines 36-89
urlResponse(result) ==
  IF result.threw
  THEN IF result.error.code = 403 THEN Reply(403, "quota")
       ELSE IF result.error.code = 404 THEN Reply(404, "not_found")
       ELSE Reply(500, "generic")
  ELSE IF Len(result.items) = 0 THEN Reply(404, "no_results")
  ELSE Success(result)

\* handleFileUpload after the await, lines 137-173
fileResponse(result) ==
  IF result.threw
  THEN IF result.error.name = "SyntaxError" THEN Reply(400, "validation")
       ELSE IF result.error.code = 403 THEN Reply(403, "quota")
       ELSE Reply(500, "generic")
  ELSE Success(result)

Respond(md, result) == IF md = "url" THEN urlResponse(result) ELSE fileResponse(result)

----------------------------------------------------------------------------
(* processVideoUrls, youtubeService.js:101-143 *)

MAX_RESULTS == 15

\* Array.prototype.slice(0, n)
Slice(seq, n) == SubSeq(seq, 1, IF Len(seq) < n THEN Len(seq) ELSE n)

\* isYoutubeShort of every catalogue entry
ShortOf == [i \in 1..Len(Catalog) |->
              IF isYoutubeShortThrows(Catalog[i]) THEN "throws"
              ELSE IF isYoutubeShort(Catalog[i]) THEN "short" ELSE "keep"]

\* a variant that truncates the pool before it filters it
processedResultsSliceFirst(pool) ==
  LET Keep(i) == ShortOf[i] = "keep"
  IN SelectSeq(Slice(pool, MAX_RESULTS), Keep)

\* lines 131-133: results.filter(video => !isYoutubeShort(video)).slice(0, MAX_RESULTS)
processedResults(pool) ==
  LET Keep(i) == ShortOf[i] = "keep"
  IN Slice(SelectSeq(pool, Keep), MAX_RESULTS)

\* lines 126-138, once the loop is over
processVideoUrlsEnd(pool, token) ==
  IF Len(pool) = 0 THEN Thrown(Err("Error", 0))
  ELSE IF \E k \in 1..Len(pool) : ShortOf[pool[k]] = "throws"
       THEN Thrown(Err("TypeError", 0))
  ELSE Returned(processedResults(pool), token)

\* an entry of calls: outcome is "pending" while the call is awaited, then
\* "found" or "null" (getVideoDetails), "items" or "failed" (getRelatedVideos);
\* code is the code of the error the API raised, 0 when it raised none
Call(api, source, id) ==
  [api |-> api, source |-> source, id |-> id, outcome |-> "pending", code |-> 0,
   items |-> <<>>]

\* lines 106-117: the loop from position i on, up to its next await or its end
Proceed(urls, token, md, i, pool, log) ==
  LET valid == {j \in i..Len(urls) : Truthy(extractVideoId(urls[j]))}
  IN IF valid # {}
     THEN LET j == CHOOSE k \in valid : \A m \in valid : k <= m
          IN /\ pc' = "details"
             /\ idx' = j
             /\ calls' = Append(log, Call("videos.list", j, extractVideoId(urls[j]).str))
             /\ results' = pool
             /\ response' = NoResponse
     ELSE /\ pc' = "done"
          /\ idx' = Len(urls) + 1
          /\ calls' = log
          /\ results' = pool
          /\ response' = Respond(md, processVideoUrlsEnd(pool, token))

Settle(log, outcome, code, items) ==
  [log EXCEPT ![Len(log)].outcome = outcome, ![Len(log)].code = code,
              ![Len(log)].items = items]

\* the handler rejects the request before calling the service
Reject ==
  /\ pc' = "done"
  /\ response' = Reply(400, "validation")
  /\ invoked' = FALSE
  /\ UNCHANGED <<pageToken, videoUrls, idx, results, calls, cursors>>

\* the service is called: processVideoUrls runs up to its first await
Start(urls, token, md) ==
  /\ invoked' = TRUE
  /\ pageToken' = token
  /\ videoUrls' = urls
  /\ cursors' = {}
  /\ Proceed(urls, token, md, 1, <<>>, <<>>)

\* POST /recommendations: the route's check, api.js:20-30, then
\* handleUrlInput up to its await, youtubeController.js:4-34
HandleUrlInput(body, token) ==
  /\ pc = "idle"
  /\ mode' = "url"
  /\ request' = body
  /\ IF ~body.isArray THEN Reject
     ELSE IF Len(body.urls) = 0 THEN Reject
     ELSE IF Len(body.urls) > MAX_URLS THEN Reject
     ELSE IF \A k \in 1..Len(body.urls) : ~Truthy(extractVideoId(body.urls[k]))
          THEN Reject
     ELSE Start(body.urls, token, "url")
  /\ UNCHANGED exVars
  /\ UNCHANGED shVars

\* a variant that queries the related videos of a source whatever the
\* details query returned
DetailsReturnRelatedAnyway(found, code) ==
  /\ pc = "details"
  /\ pc' = "related"
  /\ calls' = Append(Settle(calls, IF found THEN "found" ELSE "null", code, <<>>),
                     Call("search.list", idx, calls[Len(calls)].id))
  /\ UNCHANGED <<idx, results, response>>
  /\ UNCHANGED <<mode, request, pageToken, invoked, videoUrls, cursors>>
  /\ UNCHANGED exVars
  /\ UNCHANGED shVars

\* getVideoDetails returns, youtubeService.js:41-60, and the loop goes on
\* to getRelatedVideos or to the next source
DetailsReturn(found, code) ==
  /\ pc = "details"
  /\ IF found
     THEN /\ pc' = "related"
          /\ calls' = Append(Settle(calls, "found", 0, <<>>),
                             Call("search.list", idx, calls[Len(calls)].id))
          /\ UNCHANGED <<idx, results, response>>
     ELSE Proceed(videoUrls, pageToken, mode, idx + 1, results, Settle(calls, "null", code, <<>>))
  /\ UNCHANGED <<mode, request, pageToken, invoked, videoUrls, cursors>>
  /\ UNCHANGED exVars
  /\ UNCHANGED shVars

\* getRelatedVideos returns a page, youtubeService.js:90-93 and 120-124
RelatedReturn(items, token) ==
  /\ pc = "related"
  /\ cursors' = cursors \cup {token}
  /\ Proceed(videoUrls, pageToken, mode, idx + 1, results \o items,
             Settle(calls, "items", 0, items))
  /\ UNCHANGED <<mode, request, pageToken, invoked, videoUrls>>
  /\ UNCHANGED exVars
  /\ UNCHANGED shVars

\* a variant that treats a failed related-videos query like a failed details
\* query: the source is skipped
RelatedFailSkipsSource(code) ==
  /\ pc = "related"
  /\ Proceed(videoUrls, pageToken, mode, idx + 1, results,
             Settle(calls, "failed", code, <<>>))
  /\ UNCHANGED <<mode, request, pageToken, invoked, videoUrls, cursors>>
  /\ UNCHANGED exVars
  /\ UNCHANGED shVars

\* getRelatedVideos throws: no items (code 0) or an upstream error; the
\* error passes through processVideoUrls to the handler's catch block
RelatedFail(code) ==
  /\ pc = "related"
  /\ pc' = "done"
  /\ calls' = Settle(calls, "failed", code, <<>>)
  /\ response' = Respond(mode, Thrown(Err(IF code = 0 THEN "Error" ELSE "GaxiosError", code)))
  /\ UNCHANGED <<mode, request, pageToken, invoked, videoUrls, idx, results, cursors>>
  /\ UNCHANGED exVars
  /\ UNCHANGED shVars

----------------------------------------------------------------------------
(* processTakeoutFile, youtubeService.js:145-167 *)

HISTORY_LIMIT == 10

\* new Date(entry.time) for the year strings of the entries: later years
\* are later dates
DateOf(entry) == ParseInt(entry.time.str)

RECURSIVE SortByTimeDesc(_)
\* .sort((a, b) => new Date(b.time) - new Date(a.time)): stable, latest first
SortByTimeDesc(entries) ==
  IF entries = <<>> THEN <<>>
  ELSE LET n == Len(entries)
           x == entries[n]
           sorted == SortByTimeDesc(SubSeq(entries, 1, n - 1))
           before == SelectSeq(sorted, LAMBDA e : DateOf(e) >= DateOf(x))
           after == SelectSeq(sorted, LAMBDA e : DateOf(e) < DateOf(x))
       IN before \o <<x>> \o after

RECURSIVE AddAll(_, _)
\* videoIds.add(id) for every truthy id, in order: a Set keeps first insertions
AddAll(ids, acc) ==
  IF ids = <<>> THEN acc
  ELSE AddAll(Tail(ids),
              IF Truthy(ids[1]) /\ \A k \in 1..Len(acc) : acc[k] # ids[1].str
              THEN Append(acc, ids[1].str) ELSE acc)

IsWatchEntry(entry) ==
  JsTruthy(entry.titleUrl)
    /\ Includes(entry.titleUrl.str, YoutubeCom \o Watch)

\* lines 148-156: the video IDs, in the order the Set holds them
takeoutVideoIds(watchHistory) ==
  LET recent == Slice(SortByTimeDesc(SelectSeq(watchHistory, IsWatchEntry)), HISTORY_LIMIT)
  IN AddAll([k \in 1..Len(recent) |-> extractVideoId(recent[k].titleUrl.str)], <<>>)

\* lines 159-160: `https://youtube.com/watch?v=${id}`
takeoutVideoUrls(watchHistory) ==
  LET ids == takeoutVideoIds(watchHistory)
  IN [k \in 1..Len(ids) |-> WatchUrl(YoutubeCom, ids[k])]

\* a variant that does not look at the time of an entry
IsValidEntryAnyTime(entry) ==
  /\ entry.isObject
  /\ JsTruthy(entry.titleUrl) /\ entry.titleUrl.type = "string"

\* lines 114-121 of youtubeController.js
IsValidEntry(entry) ==
  /\ entry.isObject
  /\ JsTruthy(entry.titleUrl) /\ entry.titleUrl.type = "string"
  /\ JsTruthy(entry.time) /\ entry.time.type = "string"

\* POST /upload: handleFileUpload up to its await, youtubeController.js:92-135,
\* and processTakeoutFile, which calls processVideoUrls without a pageToken
HandleFileUpload(file) ==
  /\ pc = "idle"
  /\ mode' = "file"
  /\ request' = file
  /\ IF ~file.present THEN Reject
     ELSE IF ~file.json THEN Reject
     ELSE IF ~file.isArray THEN Reject
     ELSE LET validEntries == SelectSeq(file.entries, IsValidEntry)
          IN IF Len(validEntries) = 0 THEN Reject
             ELSE Start(takeoutVideoUrls(validEntries), Null, "file")
  /\ UNCHANGED exVars
  /\ UNCHANGED shVars

----------------------------------------------------------------------------
(* shuffleWithRelevance, youtubeService.js:249-276 *)

\* what an element of the array can be: a video object or null; reading an
\* array past its end gives undefined
VideoItem(v) == [type |-> "object", video |-> v]
NullItem == [type |-> "null", video |-> 0]
Undefined == [type |-> "undefined", video |-> 0]
ItemTruthy(x) == x.type = "object"

MaxVideos == 5
RankedLen == 8
\* a list of distinct videos, long enough for chunks of three
RankedVideos == [k \in 1..RankedLen |-> VideoItem(k)]
ShuffleInputs ==
  SeqsUpTo({VideoItem(1), VideoItem(2), VideoItem(3), NullItem}, MaxVideos)
    \cup {RankedVideos}

\* line 251: Math.ceil(videos.length / 3)
chunkSize(videos) == (Len(videos) + 2) \div 3

\* lines 250-256: videos.slice(i, i + chunkSize) for i = 0, chunkSize, ...
\* while i < videos.length
chunksOf(videos) ==
  LET n == Len(videos)
      size == chunkSize(videos)
  IN IF n = 0 THEN <<>>
     ELSE [c \in 1..((n + size - 1) \div size) |->
             SubSeq(videos, (c - 1) * size + 1, IF c * size < n THEN c * size ELSE n)]

\* line 261: Math.floor(Math.random() * (i + 1)), Math.random() in [0, 1)
RandomIndex(i) == 0..i

\* line 262: [chunk[i], chunk[j]] = [chunk[j], chunk[i]], i and j counted from 0
Swap(chunk, i, j) == [chunk EXCEPT ![i + 1] = chunk[j + 1], ![j + 1] = chunk[i + 1]]

\* line 268: Math.max(...chunks.map(chunk => chunk.length)), -Infinity for
\* no chunks, which lets the loop of line 269 run as often as 0 does
maxLength(chunks) ==
  IF Len(chunks) = 0 THEN 0
  ELSE CHOOSE m \in {Len(chunks[c]) : c \in 1..Len(chunks)} :
         \A c \in 1..Len(chunks) : Len(chunks[c]) <= m

\* chunk[i], i counted from 0
At(chunk, i) == IF i < Len(chunk) THEN chunk[i + 1] ELSE Undefined

\* a variant that stops at the end of the shortest chunk
InterleaveToShortest(chunks) ==
  LET n == Len(chunks)
      m == IF n = 0 THEN 0
           ELSE CHOOSE k \in {Len(chunks[c]) : c \in 1..n} :
                  \A c \in 1..n : k <= Len(chunks[c])
      cells == [p \in 1..(m * n) |-> At(chunks[((p - 1) % n) + 1], (p - 1) \div n)]
  IN SelectSeq(cells, ItemTruthy)

\* lines 267-273: for each i below maxLength, for each chunk in order,
\* chunk[i] is pushed if it is truthy
Interleave(chunks) ==
  LET n == Len(chunks)
      m == maxLength(chunks)
      cells == [p \in 1..(m * n) |-> At(chunks[((p - 1) % n) + 1], (p - 1) \div n)]
  IN SelectSeq(cells, ItemTruthy)

\* lines 259-275 from loop variable i of chunk c on, up to the next call of
\* Math.random or to the return
ShuffleProceed(chunks, c, i) ==
  LET later == {d \in (c + 1)..Len(chunks) : Len(chunks[d]) > 1}
  IN /\ shChunks' = chunks
     /\ IF i > 0
        THEN /\ shPc' = "shuffle"
             /\ shChunk' = c
             /\ shI' = i
             /\ shResult' = <<>>
        ELSE IF later # {}
        THEN LET d == CHOOSE k \in later : \A m \in later : k <= m
             IN /\ shPc' = "shuffle"
                /\ shChunk' = d
                /\ shI' = Len(chunks[d]) - 1
                /\ shResult' = <<>>
        ELSE /\ shPc' = "returned"
             /\ shChunk' = Len(chunks) + 1
             /\ shI' = 0
             /\ shResult' = Interleave(chunks)

\* shuffleWithRelevance is called: it splits the videos and runs up to its
\* first random choice
ShuffleCall ==
  /\ shPc = "call"
  /\ ShuffleProceed(chunksOf(shVideos), 0, 0)
  /\ UNCHANGED shVideos
  /\ UNCHANGED mainVars
  /\ UNCHANGED exVars

\* Math.random returns: the swap of lines 261-262 is made and the function
\* runs on
ShuffleSwap(j) ==
  /\ shPc = "shuffle"
  /\ ShuffleProceed([shChunks EXCEPT ![shChunk] = Swap(shChunks[shChunk], shI, j)],
                    shChunk, shI - 1)
  /\ UNCHANGED shVideos
  /\ UNCHANGED mainVars
  /\ UNCHANGED exVars

----------------------------------------------------------------------------
(* Specifications *)

Next ==
  \/ \E body \in UrlBodies, token \in CallerTokens : HandleUrlInput(body, token)
  \/ \E file \in Files : HandleFileUpload(file)
  \/ \E found \in BOOLEAN, code \in {0} \cup DetailsErrorCodes :
       (found => code = 0) /\ DetailsReturn(found, code)
  \/ \E items \in RelatedPages, token \in ApiTokens : RelatedReturn(items, token)
  \/ \E code \in {0} \cup ErrorCodes : RelatedFail(code)

Spec == Init /\ [][Next]_vars

\* extractVideoId called on one URL string
ExtractCall ==
  /\ exPc = "call"
  /\ exResult' = extractVideoIdCall(exUrl)
  /\ exPc' = "returned"
  /\ UNCHANGED <<exParts, exUrl>>
  /\ UNCHANGED mainVars
  /\ UNCHANGED shVars

InitExtract ==
  /\ MainIdle
  /\ ShIdle
  /\ exParts \in ExParts
  /\ exUrl = UrlString(exParts)
  /\ exResult = NoResult
  /\ exPc = "call"

SpecExtract == InitExtract /\ [][ExtractCall]_vars

\* shuffleWithRelevance called on one array
NextShuffle ==
  \/ ShuffleCall
  \/ \E j \in RandomIndex(shI) : ShuffleSwap(j)

InitShuffle ==
  /\ MainIdle
  /\ ExIdle
  /\ shVideos \in ShuffleInputs
  /\ shChunks = <<>>
  /\ shChunk = 0
  /\ shI = 0
  /\ shResult = <<>>
  /\ shPc = "call"

SpecShuffle == InitShuffle /\ [][NextShuffle]_vars

----------------------------------------------------------------------------
(* Properties *)

Succeeded == pc = "done" /\ response.report = "success"

\* the conditions under which the specification calls an item short-form
HasShortsMarker(video) ==
  \E k \in 1..Len(shortsKeywords) : Includes(textContent(video), shortsKeywords[k])
IsPortrait(video) == video.hasDimension /\ video.height > video.width
NotShortForm(video) ==
  /\ video.hasContentDetails
  /\ video.hasSnippet
  /\ ~parseDurationThrows(video.duration)
  /\ parseDuration(video.duration) >= 180
  /\ ~HasShortsMarker(video)
  /\ ~(video.id.isString /\ Includes(video.id.str, <<"/">> \o Shorts \o <<"/">>))
  /\ ~IsPortrait(video)

\* NotShortForm of every catalogue entry
NotShortFormOf == [i \in 1..Len(Catalog) |-> NotShortForm(Catalog[i])]

\* C1: every item of a successful response, in URL-list mode and in
\* history-file mode, is not short-form: it has contentDetails and snippet,
\* lasts at least 180 seconds, carries no shorts marker in its lowercased
\* title, description and tags, has no "/shorts/" in its id and is not portrait.
C1_ReturnedItemsNotShortForm ==
  Succeeded => \A k \in 1..Len(response.items) : NotShortFormOf[response.items[k]]

\* a successful response with items, from a pool that held short-form items
\* of every kind the filter knows
C1_Witness ==
  /\ Succeeded
  /\ Len(response.items) >= 2
  /\ \E k \in 1..Len(results) : ~Catalog[results[k]].hasSnippet
  /\ \E k \in 1..Len(results) : HasShortsMarker(Catalog[results[k]])
  /\ \E k \in 1..Len(results) : IsPortrait(Catalog[results[k]])

\* the pages the related-video queries returned, concatenated in call order
RECURSIVE PoolOf(_)
PoolOf(log) ==
  IF log = <<>> THEN <<>> ELSE PoolOf(SubSeq(log, 1, Len(log) - 1)) \o log[Len(log)].items

\* the positions of the pool that hold items that are not short-form
KeptPositions(pool) == {k \in 1..Len(pool) : NotShortFormOf[pool[k]]}
\* the i-th smallest element of a set of positions
NthOf(P, i) == CHOOSE k \in P : Cardinality({m \in P : m <= k}) = i

\* C2: the items returned are the first min(15, k) items of the pool that are
\* not short-form, in pool order and with duplicates kept, where the pool is
\* the related-video results of the processed sources in source order; the
\* result never has more than 15 items.
C2_FirstFifteenOfPool ==
  Succeeded =>
    LET pool == PoolOf(calls)
        kept == KeptPositions(pool)
        n == IF Cardinality(kept) < 15 THEN Cardinality(kept) ELSE 15
    IN /\ Len(response.items) = n
       /\ Len(response.items) <= 15
       /\ \A i \in 1..n : response.items[i] = pool[NthOf(kept, i)]
       /\ \A k \in 1..(Len(calls) - 1) : calls[k].source <= calls[k + 1].source

\* a truncated response: more than 15 pooled items are not short-form, a
\* short-form item lies among the first 15 of the pool, and an item is
\* returned twice
C2_Witness ==
  /\ Succeeded
  /\ Cardinality(KeptPositions(results)) > 15
  /\ \E k \in 1..15 : ~NotShortFormOf[results[k]]
  /\ \E i, j \in 1..Len(response.items) : i < j /\ response.items[i] = response.items[j]
  /\ Cardinality({calls[k].source : k \in 1..Len(calls)}) >= 2

----------------------------------------------------------------------------

NoCallFailed == \A k \in 1..Len(calls) : calls[k].outcome # "failed"
AllSourcesProcessed == pc = "done" /\ invoked /\ NoCallFailed

\* C3: when all sources have been processed and no recommendation survives
\* the filter (the pool is empty, or every pooled item is short-form), the
\* request ends with the "no results" report, in both modes.
C3_EmptyResultReported ==
  (AllSourcesProcessed /\ \A k \in 1..Len(results) : ShortOf[results[k]] = "short")
    => response.report = "no_results"

\* C4: an upstream failure with code 403 from any external call, details or
\* related-videos, ends the request with the quota report: it is the last
\* call of the request.
C4_QuotaAlwaysAborts ==
  \A k \in 1..Len(calls) :
    calls[k].code = 403 =>
      /\ k = Len(calls)
      /\ pc = "done"
      /\ response.report = "quota"

\* C5: in both handlers an error with code 403 from the service gives the
\* quota report with status 403, and one with code 404 the not-found report
\* with status 404.
C5_CodesMappedInBothHandlers ==
  (pc = "done" /\ calls # <<>> /\ calls[Len(calls)].outcome = "failed") =>
    LET code == calls[Len(calls)].code
    IN /\ code = 403 => (response.status = 403 /\ response.report = "quota")
       /\ code = 404 => (response.status = 404 /\ response.report = "not_found")

\* the requests the handlers are to reject, in the words of the specification
InvalidUrlBody(body) ==
  \/ ~body.isArray
  \/ Len(body.urls) = 0
  \/ Len(body.urls) > 5
  \/ \A k \in 1..Len(body.urls) : ~Truthy(extractVideoId(body.urls[k]))
InvalidFile(file) ==
  \/ ~file.present
  \/ ~file.json
  \/ ~file.isArray
  \/ ~\E k \in 1..Len(file.entries) :
        /\ file.entries[k].isObject
        /\ file.entries[k].titleUrl.type = "string"
        /\ file.entries[k].time.type = "string"
InvalidRequest ==
  \/ mode = "url" /\ InvalidUrlBody(request)
  \/ mode = "file" /\ InvalidFile(request)

\* C6: a request that fails input validation is answered with status 400
\* before any external call is made, and the service is never invoked.
C6_ValidationBeforeAnyCall ==
  /\ (pc # "idle" /\ InvalidRequest) =>
       (pc = "done" /\ response.status = 400 /\ ~invoked /\ calls = <<>>)
  /\ response.report = "validation" => (~invoked /\ calls = <<>>)

\* a history file of two entries, none of them valid, is rejected
C6_Witness ==
  /\ pc = "done"
  /\ mode = "file"
  /\ request.isArray
  /\ Len(request.entries) = 2
  /\ \E k \in 1..2 : request.entries[k].isObject
  /\ response.status = 400

ValidSources == {j \in 1..Len(videoUrls) : Truthy(extractVideoId(videoUrls[j]))}

\* C7: a source whose ID extraction fails or whose details are not found is
\* skipped, and the sources after it are processed and pooled; a failed
\* related-videos query is the last call of the request: no later source is
\* processed and nothing pooled is returned.
C7_SkipsContinueRelatedFailureAborts ==
  LET valid == ValidSources
      called == {calls[k].source : k \in {m \in 1..Len(calls) : calls[m].api = "videos.list"}}
  IN /\ called \subseteq valid
     /\ AllSourcesProcessed =>
          /\ called = valid
          /\ \A k \in 1..Len(calls) :
               calls[k].outcome = "found" =>
                 (k < Len(calls) /\ calls[k + 1].api = "search.list"
                    /\ calls[k + 1].source = calls[k].source)
          /\ results = PoolOf(calls)
     /\ \A k \in 1..Len(calls) :
          calls[k].outcome = "failed" =>
            /\ k = Len(calls)
            /\ pc = "done"
            /\ response.report # "success"
            /\ response.items = <<>>
            /\ \A j \in valid : j > calls[k].source => j \notin called

\* a related-videos query fails after one source was skipped for missing
\* details and another has pooled candidates, with a source still to come
C7_Witness ==
  /\ pc = "done"
  /\ calls # <<>>
  /\ calls[Len(calls)].outcome = "failed"
  /\ results # <<>>
  /\ \E k \in 1..Len(calls) : calls[k].outcome = "null"
  /\ \E j \in ValidSources : j > calls[Len(calls)].source
  /\ 1 \notin ValidSources

\* the watch entries of the history handed to processTakeoutFile
WatchHistory == SelectSeq(request.entries, IsValidEntry)
Qualifying == {p \in 1..Len(WatchHistory) : IsWatchEntry(WatchHistory[p])}
\* entries that are among the ten latest however ties are broken, and
\* entries that are among the ten latest for some way of breaking ties
SurelyRecent ==
  {p \in Qualifying :
     Cardinality({r \in Qualifying \ {p} : DateOf(WatchHistory[r]) >= DateOf(WatchHistory[p])}) < 10}
PossiblyRecent ==
  {p \in Qualifying :
     Cardinality({r \in Qualifying : DateOf(WatchHistory[r]) > DateOf(WatchHistory[p])}) < 10}
IdsOf(P) ==
  {extractVideoId(WatchHistory[p].titleUrl.str) : p \in P}
    \ {v \in {extractVideoId(WatchHistory[p].titleUrl.str) : p \in P} : ~Truthy(v)}
\* the video ID processVideoUrls reads from each source it is given
FedIds == [k \in 1..Len(videoUrls) |-> extractVideoId(videoUrls[k])]

\* C8: in history-file mode the pipeline is fed exactly the distinct video
\* IDs of the (at most) 10 latest watch entries: at most 10 sources, no ID
\* twice, no ID of an older entry only.
C8_TenLatestDistinctIds ==
  (mode = "file" /\ invoked) =>
    /\ Len(videoUrls) <= 10
    /\ \A i, j \in 1..Len(videoUrls) : i # j => FedIds[i] # FedIds[j]
    /\ IdsOf(SurelyRecent) \subseteq {FedIds[k] : k \in 1..Len(videoUrls)}
    /\ {FedIds[k] : k \in 1..Len(videoUrls)} \subseteq IdsOf(PossiblyRecent)

\* C9: the nextPageToken of a successful URL-list response is a cursor the
\* related-videos query returned; in history-file mode it is always null.
C9_CursorComesFromApi ==
  Succeeded =>
    IF mode = "url" THEN response.nextPageToken \in cursors
    ELSE response.nextPageToken = Null

\* the URL a string stands for, read from its parts
IsUrl(parts) == parts.prefix.kind # "none"
HostOf(parts) == IF parts.prefix.kind = "web" THEN ToLower(parts.host) ELSE <<>>
VParamOf(parts) ==
  LET vs == {i \in 1..Len(parts.query) : parts.query[i].name = <<"v">>}
  IN IF vs = {} THEN Null
     ELSE Str(parts.query[CHOOSE i \in vs : \A j \in vs : i <= j].val)
PathOf(parts) == IF parts.path = <<>> THEN <<>> ELSE Tail(parts.path)

\* C10: extractVideoId never throws; it returns the v parameter when the
\* host contains youtube.com (nothing usable when v is absent or empty),
\* otherwise the path without its leading slash when the host contains
\* youtu.be, and null for other hosts and for strings that are no URL.
C10_ExtractVideoId ==
  exPc = "returned" =>
    /\ ~exResult.threw
    /\ IF ~IsUrl(exParts) THEN exResult.value = Null
       ELSE IF Includes(HostOf(exParts), YoutubeCom)
            THEN /\ exResult.value = VParamOf(exParts)
                 /\ (VParamOf(exParts).isNull \/ VParamOf(exParts).str = <<>>)
                      => ~Truthy(exResult.value)
       ELSE IF Includes(HostOf(exParts), YoutuBe)
            THEN exResult.value = Str(PathOf(exParts))
       ELSE exResult.value = Null

\* the v parameter of a www.youtube.com URL is returned decoded, although a
\* fragment follows it
C10_Witness ==
  /\ exPc = "returned"
  /\ exParts.host = Www \o YoutubeCom
  /\ exParts.fragment # <<>>
  /\ exResult.value = Str(<<"a","&","b">>)

\* the positions in calls of the calls of one kind issued for a source
CallsOf(api, source) ==
  {k \in 1..Len(calls) : calls[k].api = api /\ calls[k].source = source}
Outstanding == {k \in 1..Len(calls) : calls[k].outcome = "pending"}

\* C11: within one request the external calls are issued one after the other
\* in source order: at most one call is outstanding at any time and it is the
\* latest one issued; a source gets at most one details call and at most one
\* related-videos call; its related-videos call is issued right after its
\* details call has completed with a video, and only then; every call for a
\* later source is issued after the calls of the earlier sources completed.
C11_CallsStrictlySequential ==
  /\ Cardinality(Outstanding) <= 1
  /\ Outstanding \subseteq {Len(calls)}
  /\ (Outstanding # {}) = (pc \in {"details", "related"})
  /\ \A s \in 1..Len(videoUrls) :
       /\ Cardinality(CallsOf("videos.list", s)) <= 1
       /\ Cardinality(CallsOf("search.list", s)) <= 1
  /\ \A k \in 1..Len(calls) :
       /\ calls[k].source \in 1..Len(videoUrls)
       /\ calls[k].api \in {"videos.list", "search.list"}
       /\ calls[k].api = "search.list" =>
            /\ k > 1
            /\ calls[k - 1].api = "videos.list"
            /\ calls[k - 1].source = calls[k].source
            /\ calls[k - 1].outcome = "found"
       /\ \A m \in 1..Len(calls) :
            k < m => /\ calls[k].source <= calls[m].source
                     /\ calls[k].outcome # "pending"

\* the related-videos query of a source is outstanding after an earlier
\* source was skipped for missing details and another completed both calls
C11_Witness ==
  /\ pc = "related"
  /\ Len(calls) >= 4
  /\ calls[Len(calls)].api = "search.list"
  /\ calls[Len(calls)].outcome = "pending"
  /\ \E k \in 1..Len(calls) : calls[k].outcome = "null"
  /\ \E k \in 1..Len(calls) : calls[k].outcome = "items"

AllVideoItems(seq) == \A k \in 1..Len(seq) : seq[k].type = "object"
Occurrences(seq, x) == Cardinality({k \in 1..Len(seq) : seq[k] = x})

\* C12: whatever the random choices, shuffleWithRelevance returns a
\* permutation of a sequence of video items: the same length and every item
\* as often as in the input; an input of length 0 or 1 is returned as it is.
C12_ShuffleIsPermutation ==
  (shPc = "returned" /\ AllVideoItems(shVideos)) =>
    /\ Len(shResult) = Len(shVideos)
    /\ \A k \in 1..Len(shVideos) :
         Occurrences(shResult, shVideos[k]) = Occurrences(shVideos, shVideos[k])
    /\ \A k \in 1..Len(shResult) : Occurrences(shVideos, shResult[k]) > 0
    /\ Len(shVideos) <= 1 => shResult = shVideos

\* eight distinct videos come back in another order: the first of the
\* second chunk is no longer the video that was fourth
C12_Witness ==
  /\ shPc = "returned"
  /\ shVideos = RankedVideos
  /\ Len(shResult) = RankedLen
  /\ shResult[1] # shVideos[1]
  /\ shResult[2] # shVideos[4]

====
